---- MODULE Spec2Model ----
(***************************************************************************)
(* Model of discord_bot.py: the slash-command handlers stock_analyze and   *)
(* market_review, the asyncio control loop that runs them, the worker      *)
(* threads started by asyncio.to_thread, and the Discord platform calls    *)
(* (interaction.response.defer, interaction.followup.send).                *)
(*                                                                         *)
(* One handler coroutine runs per interaction.  An action of the model is  *)
(* one segment of a coroutine between two awaits, the completion of a      *)
(* platform call, or a step of a worker thread.                            *)
(***************************************************************************)
EXTENDS Integers, Sequences, FiniteSets, TLC

\* Number of interactions the platform delivers in one run of the model.
MaxInteractions == 2

Interactions == 1..MaxInteractions

\* Python's None, and the "no value" of the model's optional fields.
None == "None"

(***************************************************************************)
(* Inputs.  A stock code is the sequence of its characters, so that its    *)
(* length and its characters can be inspected.                             *)
(***************************************************************************)
Digits == {"0", "1", "2", "3", "4", "5", "6", "7", "8", "9"}

EmptyCode == << >>
MalformedCode == <<"6", "0", "0", "5", "1", "X">>
Code600519 == <<"6", "0", "0", "5", "1", "9">>

StockCodes == {EmptyCode, MalformedCode, Code600519}

\* The invocations of /stock_analyze the platform delivers: <<stock_code,
\* full_report>>, full_report being False when the user leaves it out.
StockAnalyzeInputs ==
    {<<EmptyCode, FALSE>>, <<MalformedCode, TRUE>>,
     <<Code600519, FALSE>>, <<Code600519, TRUE>>}

\* The exchange's code pattern: six decimal digits (600519, 300750).
WellFormedSymbol(c) == Len(c) = 6 /\ \A k \in 1..Len(c) : c[k] \in Digits

\* Values a collaborator returns (Python objects), one falsy and one truthy,
\* and the truth value "if review_result" gives a Python object.
ReturnValues == {"False", "True"}

\* The truth value of a Python object: None, False and the empty string are
\* falsy.
Truthy(v) == v \notin {"None", "False", ""}

\* Exceptions: the class, and the text str(e) yields.
ValueErr == [type |-> "ValueError", text |-> "invalid stock code"]
RuntimeErr == [type |-> "RuntimeError", text |-> "analysis failed"]
HTTPErr == [type |-> "HTTPException", text |-> "platform call failed"]

\* What a collaborator may raise inside its worker thread.
JobExceptions == {ValueErr, RuntimeErr}

\* The classes an exception is an instance of.
Mro(t) ==
    CASE t = "ValueError" -> {"ValueError", "Exception"}
      [] t = "RuntimeError" -> {"RuntimeError", "Exception"}
      [] t = "HTTPException" -> {"HTTPException", "Exception"}

IsInstance(e, cls) == cls \in Mro(e.type)

(***************************************************************************)
(* Follow-up messages.  "text" names the fixed part of the f-string and    *)
(* the other field carries the interpolated value.                         *)
(*   analysis_done     "✅ 股票分析完成！{stock_code} 的分析报告已生成。"      *)
(*   stock_code_error  "❌ 股票代码错误：{str(e)}"                           *)
(*   analysis_error    "❌ 分析过程中发生错误：{str(e)}"                      *)
(*   review_done       "✅ 大盘复盘完成！报告已生成。"                        *)
(*   review_failed     "❌ 大盘复盘失败！"                                   *)
(*   review_error      "❌ 大盘复盘过程中发生错误：{str(e)}"                  *)
(***************************************************************************)
Str(e) == e.text

AnalysisDone(code) == [text |-> "analysis_done", stock_code |-> code]
StockCodeError(e) == [text |-> "stock_code_error", error |-> Str(e)]
AnalysisError(e) == [text |-> "analysis_error", error |-> Str(e)]
ReviewDone == [text |-> "review_done"]
ReviewFailed == [text |-> "review_failed"]
ReviewError(e) == [text |-> "review_error", error |-> Str(e)]

NoMessage == [text |-> None]
NoException == [type |-> None]

VARIABLES
    pc,           \* pc[i]: where the handler coroutine of interaction i is
    cmd,          \* cmd[i]: the command of interaction i
    stock_code,   \* stock_code[i]: parameter of stock_analyze
    full_report,  \* full_report[i]: parameter of stock_analyze
    acks,         \* acks[i]: deferred acknowledgments the platform accepted
    dispatched,   \* dispatched[i]: asyncio.to_thread calls made for i
    call,         \* call[i]: the arguments the collaborator was invoked with
    job,          \* job[i]: state of the worker thread of i
    outcome,      \* outcome[i]: what the collaborator returned or raised
    heap,         \* configuration objects: identity -> contents
    attempts,     \* attempts[i]: followup.send calls made for i
    sending,      \* sending[i]: the message of the followup.send in flight
    followups,    \* followups[i]: follow-up messages the platform delivered
    escaped,      \* escaped[i]: the exception that left the handler of i
    loop,         \* the handler that holds the control loop in a blocking call
    replies,      \* replies[i]: messages delivered by response.send_message
    deferred,     \* the interactions whose defer call was issued, in call order
    mainpc,       \* where main() is: "start", inside bot.run, or "exited"
    token,        \* config.discord_bot_token
    ended,        \* how main() left: no token, bot.run returned or raised
    exit_code,    \* the values main() returned (at most one)
    lifecycle,    \* the bot lifecycle state
    synced,       \* tree.sync() of setup_hook has returned
    ready_pc,     \* where the on_ready coroutine is
    presence      \* the presence descriptor the platform shows

lifeVars == <<mainpc, token, ended, exit_code, lifecycle, synced, ready_pc,
              presence>>

vars == <<pc, cmd, stock_code, full_report, acks, dispatched, call, job,
          outcome, heap, attempts, sending, followups, escaped, loop,
          replies, deferred, lifeVars>>

\* Nobody holds the control loop: it is free to run any ready coroutine.
Free == 0

\* The module-level config object (config = get_config()).
GlobalConfig == 0

\* Contents of the process-wide configuration at start-up.
GlobalContents == [stock_list |-> <<Code600519>>]

NoCall == [fn |-> None]
NoOutcome == [kind |-> None]

\* The presence descriptor: none before on_ready, then
\* status=discord.Status.online, activity=Game("A股智能分析 | /help").
NoPresence == [status |-> None]
Online == [status |-> "online", activity |-> "Game(... | /help)"]

\* No interaction has been delivered yet.
NoInteractions ==
    /\ pc = [i \in Interactions |-> "idle"]
    /\ cmd = [i \in Interactions |-> None]
    /\ stock_code = [i \in Interactions |-> EmptyCode]
    /\ full_report = [i \in Interactions |-> FALSE]
    /\ acks = [i \in Interactions |-> 0]
    /\ dispatched = [i \in Interactions |-> 0]
    /\ call = [i \in Interactions |-> NoCall]
    /\ job = [i \in Interactions |-> None]
    /\ outcome = [i \in Interactions |-> NoOutcome]
    /\ heap = (GlobalConfig :> GlobalContents)
    /\ attempts = [i \in Interactions |-> 0]
    /\ sending = [i \in Interactions |-> NoMessage]
    /\ followups = [i \in Interactions |-> << >>]
    /\ escaped = [i \in Interactions |-> NoException]
    /\ loop = Free
    /\ replies = [i \in Interactions |-> << >>]
    /\ deferred = << >>

\* The bot is up: main() is inside bot.run with a token, setup_hook and
\* on_ready have run, and the presence is set.
Up ==
    /\ mainpc = "gateway"
    /\ token = "token"
    /\ ended = None
    /\ exit_code = << >>
    /\ lifecycle = "Ready"
    /\ synced = TRUE
    /\ ready_pc = "done"
    /\ presence = Online

\* The bridge while the bot is serving: no interaction delivered yet.
Init == NoInteractions /\ Up

(***************************************************************************)
(* The platform delivers a command: the control loop creates the handler   *)
(* coroutine, which runs to its first await, interaction.response.defer.   *)
(* Interactions are numbered in receipt order.                             *)
(***************************************************************************)
\* Mutant: an await that suspends the handler stands before the defer call,
\* which the handler issues when the control loop resumes it.
ReceiveSuspended(i, c, code, f) ==
    \/ /\ loop = Free
       /\ pc[i] = "idle"
       /\ \A j \in Interactions : j < i => pc[j] # "idle"
       /\ pc' = [pc EXCEPT ![i] = "defer"]
       /\ cmd' = [cmd EXCEPT ![i] = c]
       /\ stock_code' = [stock_code EXCEPT ![i] = code]
       /\ full_report' = [full_report EXCEPT ![i] = f]
       /\ UNCHANGED <<acks, dispatched, call, job, outcome, heap, attempts,
                      sending, followups, escaped, loop>>
       /\ UNCHANGED <<replies, deferred, lifeVars>>
    \/ /\ loop = Free
       /\ pc[i] = "defer"
       /\ \A k \in 1..Len(deferred) : deferred[k] # i
       /\ deferred' = Append(deferred, i)
       /\ UNCHANGED <<pc, cmd, stock_code, full_report, acks, dispatched, call,
                      job, outcome, heap, attempts, sending, followups, escaped,
                      loop>>
       /\ UNCHANGED <<replies, lifeVars>>

Receive(i, c, code, f) ==
    /\ loop = Free
    /\ pc[i] = "idle"
    /\ \A j \in Interactions : j < i => pc[j] # "idle"
    /\ pc' = [pc EXCEPT ![i] = "defer"]
    /\ deferred' = Append(deferred, i)
    /\ cmd' = [cmd EXCEPT ![i] = c]
    /\ stock_code' = [stock_code EXCEPT ![i] = code]
    /\ full_report' = [full_report EXCEPT ![i] = f]
    /\ UNCHANGED <<acks, dispatched, call, job, outcome, heap, attempts,
                   sending, followups, escaped, loop>>
    /\ UNCHANGED <<replies, lifeVars>>

ReceiveStockAnalyze(i) ==
    \E in \in StockAnalyzeInputs : Receive(i, "stock_analyze", in[1], in[2])

ReceiveMarketReview(i) == Receive(i, "market_review", EmptyCode, FALSE)

(***************************************************************************)
(* help and about: the handler builds its text, a constant, and runs to    *)
(* its only await, interaction.response.send_message.                      *)
(***************************************************************************)
HelpText == [text |-> "help_message"]
AboutText == [text |-> "about_message"]

StaticText(c) == IF c = "help" THEN HelpText ELSE AboutText

\* Mutant: help and about written like the job commands, with a deferred
\* acknowledgment first.
ReceiveStaticDeferred(i, c) == Receive(i, c, EmptyCode, FALSE)

ReceiveStatic(i, c) ==
    /\ loop = Free
    /\ pc[i] = "idle"
    /\ \A j \in Interactions : j < i => pc[j] # "idle"
    /\ pc' = [pc EXCEPT ![i] = "respond"]
    /\ cmd' = [cmd EXCEPT ![i] = c]
    /\ UNCHANGED <<stock_code, full_report, acks, dispatched, call, job,
                   outcome, heap, attempts, sending, followups, escaped, loop>>
    /\ UNCHANGED <<replies, deferred, lifeVars>>

ReceiveHelp(i) == ReceiveStatic(i, "help")

ReceiveAbout(i) == ReceiveStatic(i, "about")

\* Mutant: help and about hand a job to a worker thread before they answer.
RespondAfterJob(i) ==
    /\ loop = Free
    /\ pc[i] = "respond"
    /\ dispatched[i] = 0
    /\ dispatched' = [dispatched EXCEPT ![i] = @ + 1]
    /\ job' = [job EXCEPT ![i] = "running"]
    /\ UNCHANGED <<pc, cmd, stock_code, full_report, acks, call, outcome, heap,
                   attempts, sending, followups, escaped, loop>>
    /\ UNCHANGED <<replies, deferred, lifeVars>>

\* send_message returns: the platform shows the text as the response.
RespondReturns(i) ==
    /\ loop = Free
    /\ pc[i] = "respond"
    /\ replies' = [replies EXCEPT ![i] = Append(@, StaticText(cmd[i]))]
    /\ pc' = [pc EXCEPT ![i] = "done"]
    /\ UNCHANGED <<cmd, stock_code, full_report, acks, dispatched, call, job,
                   outcome, heap, attempts, sending, followups, escaped, loop>>
    /\ UNCHANGED <<deferred, lifeVars>>

\* send_message raises: nothing is shown and the exception leaves the
\* handler, which has no try block.
RespondRaises(i) ==
    /\ loop = Free
    /\ pc[i] = "respond"
    /\ pc' = [pc EXCEPT ![i] = "raised"]
    /\ escaped' = [escaped EXCEPT ![i] = HTTPErr]
    /\ UNCHANGED <<cmd, stock_code, full_report, acks, dispatched, call, job,
                   outcome, heap, attempts, sending, followups, loop>>
    /\ UNCHANGED <<replies, deferred, lifeVars>>

(***************************************************************************)
(* await interaction.response.defer(ephemeral=False): the platform accepts *)
(* the deferred acknowledgment and the call returns, or the call raises.   *)
(* The call stands outside the try block, so its exception leaves the      *)
(* handler.                                                                *)
(***************************************************************************)
DeferReturns(i) ==
    /\ loop = Free
    /\ pc[i] = "defer"
    /\ acks' = [acks EXCEPT ![i] = @ + 1]
    /\ pc' = [pc EXCEPT ![i] = "acked"]
    /\ UNCHANGED <<cmd, stock_code, full_report, dispatched, call, job, outcome,
                   heap, attempts, sending, followups, escaped, loop>>
    /\ UNCHANGED <<replies, deferred, lifeVars>>

DeferRaises(i) ==
    /\ loop = Free
    /\ pc[i] = "defer"
    /\ pc' = [pc EXCEPT ![i] = "raised"]
    /\ escaped' = [escaped EXCEPT ![i] = HTTPErr]
    /\ UNCHANGED <<cmd, stock_code, full_report, acks, dispatched, call, job,
                   outcome, heap, attempts, sending, followups, loop>>
    /\ UNCHANGED <<replies, deferred, lifeVars>>

\* Mutant: no_market_review=full_report, the negation forgotten.
NamespaceNotNegated(full) ==
    [debug |-> TRUE, dry_run |-> FALSE, no_notify |-> FALSE,
     single_notify |-> FALSE, workers |-> None, schedule |-> FALSE,
     market_review |-> FALSE, no_market_review |-> full, webui |-> FALSE,
     webui_only |-> FALSE, stocks |-> None]

\* argparse.Namespace(...) built by stock_analyze.
Namespace(full) ==
    [debug |-> TRUE, dry_run |-> FALSE, no_notify |-> FALSE,
     single_notify |-> FALSE, workers |-> None, schedule |-> FALSE,
     market_review |-> FALSE, no_market_review |-> ~full, webui |-> FALSE,
     webui_only |-> FALSE, stocks |-> None]

\* Config(): a new object.  Object identities are opaque, so the object is
\* named after the interaction whose handler constructs it.
NewObject(i) == i

\* Config(): the contents of a newly constructed configuration object.
ConfigContents(h) == h[GlobalConfig]

\* Mutant: bot_config = config, the module-level object handed to the job.
BotConfigShared(i) == GlobalConfig

\* bot_config = Config(): the object handed to the job of interaction i.
BotConfig(i) == NewObject(i)

\* Mutant: run_full_analysis(...) called directly: the handler keeps the
\* control loop until the collaborator returns.
DirectCall(i) == i

\* await asyncio.to_thread(...): who holds the control loop while the job runs.
ToThread(i) == Free

\* Mutant: the handler sets bot_config.stock_list to the requested symbol
\* before it hands the object to the job.
DispatchStockAnalyzeOverride(i) ==
    /\ loop = Free
    /\ pc[i] = "acked"
    /\ cmd[i] = "stock_analyze"
    /\ LET bot_config == BotConfig(i)
       IN /\ heap' = (bot_config :> [stock_list |-> <<stock_code[i]>>]) @@ heap
          /\ call' = [call EXCEPT ![i] =
                 [fn |-> "run_full_analysis", config |-> bot_config,
                  args |-> Namespace(full_report[i]),
                  stock_codes |-> <<stock_code[i]>>]]
    /\ job' = [job EXCEPT ![i] = "running"]
    /\ dispatched' = [dispatched EXCEPT ![i] = @ + 1]
    /\ pc' = [pc EXCEPT ![i] = "await_job"]
    /\ loop' = ToThread(i)
    /\ UNCHANGED <<cmd, stock_code, full_report, acks, outcome, attempts,
                   sending, followups, escaped>>
    /\ UNCHANGED <<replies, deferred, lifeVars>>

(***************************************************************************)
(* stock_analyze from the return of defer to the await of to_thread: the   *)
(* arguments are built, the configuration object is created and the        *)
(* collaborator run_full_analysis is handed to a worker thread.            *)
(***************************************************************************)
DispatchStockAnalyze(i) ==
    /\ loop = Free
    /\ pc[i] = "acked"
    /\ cmd[i] = "stock_analyze"
    /\ LET bot_config == BotConfig(i)
       IN /\ heap' = (bot_config :> ConfigContents(heap)) @@ heap
          /\ call' = [call EXCEPT ![i] =
                 [fn |-> "run_full_analysis", config |-> bot_config,
                  args |-> Namespace(full_report[i]),
                  stock_codes |-> <<stock_code[i]>>]]
    /\ job' = [job EXCEPT ![i] = "running"]
    /\ dispatched' = [dispatched EXCEPT ![i] = @ + 1]
    /\ pc' = [pc EXCEPT ![i] = "await_job"]
    /\ loop' = ToThread(i)
    /\ UNCHANGED <<cmd, stock_code, full_report, acks, outcome, attempts,
                   sending, followups, escaped>>
    /\ UNCHANGED <<replies, deferred, lifeVars>>

\* Mutant: market_review without the await of defer: the job is handed off
\* for an interaction that was never acknowledged.
DispatchMarketReviewNoDefer(i) ==
    /\ loop = Free
    /\ pc[i] = "defer"
    /\ cmd[i] = "market_review"
    /\ call' = [call EXCEPT ![i] =
           [fn |-> "run_market_review", notifier |-> "NotificationService",
            analyzer |-> None, search_service |-> None]]
    /\ job' = [job EXCEPT ![i] = "running"]
    /\ dispatched' = [dispatched EXCEPT ![i] = @ + 1]
    /\ pc' = [pc EXCEPT ![i] = "await_job"]
    /\ loop' = Free
    /\ UNCHANGED <<cmd, stock_code, full_report, acks, outcome, heap, attempts,
                   sending, followups, escaped>>
    /\ UNCHANGED <<replies, deferred, lifeVars>>

(***************************************************************************)
(* market_review from the return of defer to the await of to_thread.       *)
(***************************************************************************)
DispatchMarketReview(i) ==
    /\ loop = Free
    /\ pc[i] = "acked"
    /\ cmd[i] = "market_review"
    /\ call' = [call EXCEPT ![i] =
           [fn |-> "run_market_review", notifier |-> "NotificationService",
            analyzer |-> None, search_service |-> None]]
    /\ job' = [job EXCEPT ![i] = "running"]
    /\ dispatched' = [dispatched EXCEPT ![i] = @ + 1]
    /\ pc' = [pc EXCEPT ![i] = "await_job"]
    /\ loop' = ToThread(i)
    /\ UNCHANGED <<cmd, stock_code, full_report, acks, outcome, heap, attempts,
                   sending, followups, escaped>>
    /\ UNCHANGED <<replies, deferred, lifeVars>>

(***************************************************************************)
(* The worker thread.  The collaborator is external: it may write to the   *)
(* configuration object it was given, return any value, raise, or never    *)
(* return.  When the thread ends, a control loop it was holding is free.   *)
(***************************************************************************)
Released(i) == IF loop = i THEN Free ELSE loop

JobWrites(i) ==
    /\ job[i] = "running"
    /\ call[i].fn = "run_full_analysis"
    /\ heap[call[i].config].stock_list # call[i].stock_codes
    /\ heap' = [heap EXCEPT ![call[i].config].stock_list = call[i].stock_codes]
    /\ UNCHANGED <<pc, cmd, stock_code, full_report, acks, dispatched, call, job,
                   outcome, attempts, sending, followups, escaped, loop>>
    /\ UNCHANGED <<replies, deferred, lifeVars>>

JobReturns(i) ==
    /\ job[i] = "running"
    /\ \E v \in ReturnValues :
           outcome' = [outcome EXCEPT ![i] = [kind |-> "return", value |-> v]]
    /\ job' = [job EXCEPT ![i] = "done"]
    /\ loop' = Released(i)
    /\ UNCHANGED <<pc, cmd, stock_code, full_report, acks, dispatched, call, heap,
                   attempts, sending, followups, escaped>>
    /\ UNCHANGED <<replies, deferred, lifeVars>>

JobRaises(i) ==
    /\ job[i] = "running"
    /\ \E e \in JobExceptions :
           outcome' = [outcome EXCEPT ![i] = [kind |-> "raise", exc |-> e]]
    /\ job' = [job EXCEPT ![i] = "done"]
    /\ loop' = Released(i)
    /\ UNCHANGED <<pc, cmd, stock_code, full_report, acks, dispatched, call, heap,
                   attempts, sending, followups, escaped>>
    /\ UNCHANGED <<replies, deferred, lifeVars>>

JobHangs(i) ==
    /\ job[i] = "running"
    /\ job' = [job EXCEPT ![i] = "hung"]
    /\ UNCHANGED <<pc, cmd, stock_code, full_report, acks, dispatched, call,
                   outcome, heap, attempts, sending, followups, escaped, loop>>
    /\ UNCHANGED <<replies, deferred, lifeVars>>

(***************************************************************************)
(* The handler ends: its locals (args, bot_config, result) are gone, and   *)
(* a configuration object only they referred to is collected.              *)
(***************************************************************************)
Live(i) ==
    IF call[i].fn = "run_full_analysis" /\ call[i].config # GlobalConfig
    THEN DOMAIN heap \ {call[i].config}
    ELSE DOMAIN heap

EndOfHandler(i) ==
    /\ call' = [call EXCEPT ![i] = NoCall]
    /\ outcome' = [outcome EXCEPT ![i] = NoOutcome]
    /\ heap' = [o \in Live(i) |-> heap[o]]

(***************************************************************************)
(* The choice of the follow-up message.                                    *)
(***************************************************************************)
\* Mutant: stock_analyze tests the value run_full_analysis returned, as
\* market_review does.
StockAnalyzeFollowupChecked(code, result) ==
    IF Truthy(result) THEN AnalysisDone(code)
    ELSE [text |-> "analysis_error", error |-> result]

\* stock_analyze, after to_thread returned: the success message.
StockAnalyzeFollowup(code, result) == AnalysisDone(code)

\* Mutant: the clause "except Exception" written first, so that it also
\* takes the ValueError.
StockAnalyzeExceptSwapped(e) == AnalysisError(e)

\* stock_analyze, the except clauses: ValueError first, then Exception.
StockAnalyzeExcept(e) ==
    IF IsInstance(e, "ValueError") THEN StockCodeError(e)
    ELSE AnalysisError(e)

\* Mutant: "if review_result is not None" in place of the truth test.
MarketReviewFollowupNotNone(review_result) ==
    IF review_result # "None" THEN ReviewDone ELSE ReviewFailed

\* market_review, after to_thread returned: if review_result ... else ...
MarketReviewFollowup(review_result) ==
    IF Truthy(review_result) THEN ReviewDone ELSE ReviewFailed

\* market_review, the except clause.
MarketReviewExcept(e) == ReviewError(e)

(***************************************************************************)
(* The worker thread has ended and the control loop resumes the handler    *)
(* at the await of to_thread, which returns the value or raises the        *)
(* exception of the job; the handler runs to its next await, followup.send.*)
(***************************************************************************)
\* Mutant: stock_analyze hands the job to a worker thread once more when
\* run_full_analysis raised.
ResumeStockAnalyzeRetry(i) ==
    /\ loop = Free
    /\ pc[i] = "await_job"
    /\ cmd[i] = "stock_analyze"
    /\ job[i] = "done"
    /\ IF outcome[i].kind = "return"
       THEN /\ sending' = [sending EXCEPT ![i] =
                   StockAnalyzeFollowup(stock_code[i], outcome[i].value)]
            /\ pc' = [pc EXCEPT ![i] = "send"]
            /\ attempts' = [attempts EXCEPT ![i] = @ + 1]
            /\ UNCHANGED <<dispatched, job, outcome>>
       ELSE IF dispatched[i] < 2
       THEN /\ dispatched' = [dispatched EXCEPT ![i] = @ + 1]
            /\ job' = [job EXCEPT ![i] = "running"]
            /\ outcome' = [outcome EXCEPT ![i] = NoOutcome]
            /\ UNCHANGED <<sending, pc, attempts>>
       ELSE /\ sending' = [sending EXCEPT ![i] = StockAnalyzeExcept(outcome[i].exc)]
            /\ pc' = [pc EXCEPT ![i] = "send_except"]
            /\ attempts' = [attempts EXCEPT ![i] = @ + 1]
            /\ UNCHANGED <<dispatched, job, outcome>>
    /\ UNCHANGED <<cmd, stock_code, full_report, acks, call, heap, followups,
                   escaped, loop>>
    /\ UNCHANGED <<replies, deferred, lifeVars>>

ResumeStockAnalyze(i) ==
    /\ loop = Free
    /\ pc[i] = "await_job"
    /\ cmd[i] = "stock_analyze"
    /\ job[i] = "done"
    /\ IF outcome[i].kind = "return"
       THEN /\ sending' = [sending EXCEPT ![i] =
                   StockAnalyzeFollowup(stock_code[i], outcome[i].value)]
            /\ pc' = [pc EXCEPT ![i] = "send"]
       ELSE /\ sending' = [sending EXCEPT ![i] = StockAnalyzeExcept(outcome[i].exc)]
            /\ pc' = [pc EXCEPT ![i] = "send_except"]
    /\ attempts' = [attempts EXCEPT ![i] = @ + 1]
    /\ UNCHANGED <<cmd, stock_code, full_report, acks, dispatched, call, job,
                   outcome, heap, followups, escaped, loop>>
    /\ UNCHANGED <<replies, deferred, lifeVars>>

\* Mutant: market_review without the else branch: a falsy result ends the
\* handler with no follow-up.
ResumeMarketReviewNoElse(i) ==
    /\ loop = Free
    /\ pc[i] = "await_job"
    /\ cmd[i] = "market_review"
    /\ job[i] = "done"
    /\ IF outcome[i].kind = "return" /\ ~Truthy(outcome[i].value)
       THEN /\ pc' = [pc EXCEPT ![i] = "done"]
            /\ EndOfHandler(i)
            /\ UNCHANGED <<sending, attempts>>
       ELSE /\ sending' = [sending EXCEPT ![i] =
                   IF outcome[i].kind = "return" THEN ReviewDone
                   ELSE MarketReviewExcept(outcome[i].exc)]
            /\ pc' = [pc EXCEPT ![i] =
                   IF outcome[i].kind = "return" THEN "send" ELSE "send_except"]
            /\ attempts' = [attempts EXCEPT ![i] = @ + 1]
            /\ UNCHANGED <<call, outcome, heap>>
    /\ UNCHANGED <<cmd, stock_code, full_report, acks, dispatched, job,
                   followups, escaped, loop>>
    /\ UNCHANGED <<replies, deferred, lifeVars>>

\* Mutant: market_review without its except clause: the exception of the
\* job leaves the handler.
ResumeMarketReviewUncaught(i) ==
    /\ loop = Free
    /\ pc[i] = "await_job"
    /\ cmd[i] = "market_review"
    /\ job[i] = "done"
    /\ IF outcome[i].kind = "return"
       THEN /\ sending' = [sending EXCEPT ![i] =
                   MarketReviewFollowup(outcome[i].value)]
            /\ pc' = [pc EXCEPT ![i] = "send"]
            /\ attempts' = [attempts EXCEPT ![i] = @ + 1]
            /\ UNCHANGED <<call, outcome, heap, escaped>>
       ELSE /\ escaped' = [escaped EXCEPT ![i] = outcome[i].exc]
            /\ pc' = [pc EXCEPT ![i] = "raised"]
            /\ EndOfHandler(i)
            /\ UNCHANGED <<sending, attempts>>
    /\ UNCHANGED <<cmd, stock_code, full_report, acks, dispatched, job,
                   followups, loop>>
    /\ UNCHANGED <<replies, deferred, lifeVars>>

ResumeMarketReview(i) ==
    /\ loop = Free
    /\ pc[i] = "await_job"
    /\ cmd[i] = "market_review"
    /\ job[i] = "done"
    /\ IF outcome[i].kind = "return"
       THEN /\ sending' = [sending EXCEPT ![i] =
                   MarketReviewFollowup(outcome[i].value)]
            /\ pc' = [pc EXCEPT ![i] = "send"]
       ELSE /\ sending' = [sending EXCEPT ![i] = MarketReviewExcept(outcome[i].exc)]
            /\ pc' = [pc EXCEPT ![i] = "send_except"]
    /\ attempts' = [attempts EXCEPT ![i] = @ + 1]
    /\ UNCHANGED <<cmd, stock_code, full_report, acks, dispatched, call, job,
                   outcome, heap, followups, escaped, loop>>
    /\ UNCHANGED <<replies, deferred, lifeVars>>

(***************************************************************************)
(* await interaction.followup.send(...): the platform delivers the message *)
(* and the call returns, or the call raises and nothing is delivered.      *)
(***************************************************************************)
SendReturns(i) ==
    /\ loop = Free
    /\ pc[i] \in {"send", "send_except"}
    /\ followups' = [followups EXCEPT ![i] = Append(@, sending[i])]
    /\ sending' = [sending EXCEPT ![i] = NoMessage]
    /\ pc' = [pc EXCEPT ![i] = "done"]
    /\ EndOfHandler(i)
    /\ UNCHANGED <<cmd, stock_code, full_report, acks, dispatched, job, attempts,
                   escaped, loop>>
    /\ UNCHANGED <<replies, deferred, lifeVars>>

\* The exception of a send inside the try block reaches the except clauses,
\* whose own followup.send is the next await.
ExceptClause(c, e) ==
    IF c = "stock_analyze" THEN StockAnalyzeExcept(e) ELSE MarketReviewExcept(e)

\* Mutant: the follow-up of the try block stands after it, so that its
\* exception leaves the handler.
SendRaisesInTryUncaught(i) ==
    /\ loop = Free
    /\ pc[i] = "send"
    /\ sending' = [sending EXCEPT ![i] = NoMessage]
    /\ escaped' = [escaped EXCEPT ![i] = HTTPErr]
    /\ pc' = [pc EXCEPT ![i] = "raised"]
    /\ EndOfHandler(i)
    /\ UNCHANGED <<cmd, stock_code, full_report, acks, dispatched, job, attempts,
                   followups, loop>>
    /\ UNCHANGED <<replies, deferred, lifeVars>>

SendRaisesInTry(i) ==
    /\ loop = Free
    /\ pc[i] = "send"
    /\ sending' = [sending EXCEPT ![i] = ExceptClause(cmd[i], HTTPErr)]
    /\ attempts' = [attempts EXCEPT ![i] = @ + 1]
    /\ pc' = [pc EXCEPT ![i] = "send_except"]
    /\ UNCHANGED <<cmd, stock_code, full_report, acks, dispatched, call, job,
                   outcome, heap, followups, escaped, loop>>
    /\ UNCHANGED <<replies, deferred, lifeVars>>

\* The exception of a send inside an except clause leaves the handler.
SendRaisesInExcept(i) ==
    /\ loop = Free
    /\ pc[i] = "send_except"
    /\ sending' = [sending EXCEPT ![i] = NoMessage]
    /\ escaped' = [escaped EXCEPT ![i] = HTTPErr]
    /\ pc' = [pc EXCEPT ![i] = "raised"]
    /\ EndOfHandler(i)
    /\ UNCHANGED <<cmd, stock_code, full_report, acks, dispatched, job, attempts,
                   followups, loop>>
    /\ UNCHANGED <<replies, deferred, lifeVars>>

\* A step of the handler of interaction i or of its worker thread.
Handle(i) ==
    \/ ReceiveStockAnalyze(i)
    \/ ReceiveMarketReview(i)
    \/ ReceiveHelp(i)
    \/ ReceiveAbout(i)
    \/ RespondReturns(i)
    \/ RespondRaises(i)
    \/ DeferReturns(i)
    \/ DeferRaises(i)
    \/ DispatchStockAnalyze(i)
    \/ DispatchMarketReview(i)
    \/ JobWrites(i)
    \/ JobReturns(i)
    \/ JobRaises(i)
    \/ JobHangs(i)
    \/ ResumeStockAnalyze(i)
    \/ ResumeMarketReview(i)
    \/ SendReturns(i)
    \/ SendRaisesInTry(i)
    \/ SendRaisesInExcept(i)

Next == \E i \in Interactions : Handle(i)

Spec == Init /\ [][Next]_vars

(***************************************************************************)
(* Fairness.  The control loop runs every coroutine that is ready, every   *)
(* platform call ends (it returns or raises), and the operating system     *)
(* schedules every worker thread, whose collaborator then returns, raises  *)
(* or is found never to return.                                            *)
(***************************************************************************)
LoopStep(i) ==
    \/ RespondReturns(i)
    \/ RespondRaises(i)
    \/ DeferReturns(i)
    \/ DeferRaises(i)
    \/ DispatchStockAnalyze(i)
    \/ DispatchMarketReview(i)
    \/ ResumeStockAnalyze(i)
    \/ ResumeMarketReview(i)
    \/ SendReturns(i)
    \/ SendRaisesInTry(i)
    \/ SendRaisesInExcept(i)

JobEnds(i) == JobReturns(i) \/ JobRaises(i) \/ JobHangs(i)

FairSpec ==
    /\ Spec
    /\ \A i \in Interactions : WF_vars(LoopStep(i)) /\ WF_vars(JobEnds(i))

(***************************************************************************)
(* The life of the process: main() checks the token and calls bot.run,     *)
(* which logs in, runs setup_hook, connects to the gateway and serves      *)
(* events until it returns or raises.  The lifecycle state is Connecting   *)
(* from the call of bot.run, SyncingCommands from the start of setup_hook, *)
(* Ready from the start of on_ready and ShuttingDown when bot.run ends.    *)
(***************************************************************************)
MaxLifeInteractions == 1
LifeInteractions == 1..MaxLifeInteractions

\* config.discord_bot_token: unset, empty or set.
Tokens == {None, "", "token"}

\* How bot.run ends: it returns, or KeyboardInterrupt or an Exception
\* leaves it.
RunEndings == {"returned", "KeyboardInterrupt", "Exception"}

handlerVars == <<pc, cmd, stock_code, full_report, acks, dispatched, call, job,
                 outcome, heap, attempts, sending, followups, escaped, loop,
                 replies, deferred>>

LifeInit ==
    /\ NoInteractions
    /\ mainpc = "start"
    /\ token \in Tokens
    /\ ended = None
    /\ exit_code = << >>
    /\ lifecycle = None
    /\ synced = FALSE
    /\ ready_pc = "idle"
    /\ presence = NoPresence

\* Mutant: "except KeyboardInterrupt" returns 1.
ExitCodeInterruptFails(how) ==
    CASE how = "no_token" -> 1
      [] how = "returned" -> 0
      [] how = "KeyboardInterrupt" -> 1
      [] OTHER -> 1

\* The value main() returns: 1 without a token, 0 after bot.run returned,
\* 0 in "except KeyboardInterrupt", 1 in "except Exception".
ExitCode(how) ==
    CASE how = "no_token" -> 1
      [] how = "returned" -> 0
      [] how = "KeyboardInterrupt" -> 0
      [] OTHER -> 1

\* main() returns.
Return(how) ==
    /\ mainpc' = "exited"
    /\ ended' = how
    /\ exit_code' = Append(exit_code, ExitCode(how))

\* if not config.discord_bot_token: return 1
MainNoToken ==
    /\ mainpc = "start"
    /\ ~Truthy(token)
    /\ Return("no_token")
    /\ UNCHANGED <<token, lifecycle, synced, ready_pc, presence>>
    /\ UNCHANGED handlerVars

\* bot.run(config.discord_bot_token) is called and logs in.
BotRun ==
    /\ mainpc = "start"
    /\ Truthy(token)
    /\ mainpc' = "login"
    /\ lifecycle' = "Connecting"
    /\ UNCHANGED <<token, ended, exit_code, synced, ready_pc, presence>>
    /\ UNCHANGED handlerVars

\* The login is done: the library calls setup_hook, which awaits tree.sync.
LoginReturns ==
    /\ mainpc = "login"
    /\ mainpc' = "setup_hook"
    /\ lifecycle' = "SyncingCommands"
    /\ UNCHANGED <<token, ended, exit_code, synced, ready_pc, presence>>
    /\ UNCHANGED handlerVars

\* Mutant: setup_hook starts tree.sync without awaiting it; the sync ends
\* at some later moment.
SyncReturnsLate ==
    /\ \/ /\ mainpc = "setup_hook"
          /\ mainpc' = "connect"
          /\ UNCHANGED synced
       \/ /\ mainpc \in {"connect", "gateway"}
          /\ ~synced
          /\ synced' = TRUE
          /\ UNCHANGED mainpc
    /\ UNCHANGED <<token, ended, exit_code, lifecycle, ready_pc, presence>>
    /\ UNCHANGED handlerVars

\* await self.tree.sync() returns and setup_hook ends: the library goes on
\* to connect to the gateway.
SyncReturns ==
    /\ mainpc = "setup_hook"
    /\ synced' = TRUE
    /\ mainpc' = "connect"
    /\ UNCHANGED <<token, ended, exit_code, lifecycle, ready_pc, presence>>
    /\ UNCHANGED handlerVars

\* The gateway session is up: the platform delivers events from now on.
GatewayConnects ==
    /\ mainpc = "connect"
    /\ mainpc' = "gateway"
    /\ UNCHANGED <<token, ended, exit_code, lifecycle, synced, ready_pc,
                   presence>>
    /\ UNCHANGED handlerVars

\* The library dispatches on_ready, which logs and runs to its await of
\* change_presence.
OnReady ==
    /\ mainpc = "gateway"
    /\ ready_pc = "idle"
    /\ ready_pc' = "change_presence"
    /\ lifecycle' = "Ready"
    /\ UNCHANGED <<mainpc, token, ended, exit_code, synced, presence>>
    /\ UNCHANGED handlerVars

ChangePresenceReturns ==
    /\ mainpc = "gateway"
    /\ ready_pc = "change_presence"
    /\ presence' = Online
    /\ ready_pc' = "done"
    /\ UNCHANGED <<mainpc, token, ended, exit_code, lifecycle, synced>>
    /\ UNCHANGED handlerVars

\* change_presence raises: the exception leaves on_ready and the library
\* logs it.
ChangePresenceRaises ==
    /\ mainpc = "gateway"
    /\ ready_pc = "change_presence"
    /\ ready_pc' = "raised"
    /\ UNCHANGED <<mainpc, token, ended, exit_code, lifecycle, synced,
                   presence>>
    /\ UNCHANGED handlerVars

\* bot.run ends, at any moment after its call: the bot is closed and main()
\* returns.
BotRunEnds ==
    /\ mainpc \in {"login", "setup_hook", "connect", "gateway"}
    /\ \E how \in RunEndings : Return(how)
    /\ lifecycle' = "ShuttingDown"
    /\ UNCHANGED <<token, synced, ready_pc, presence>>
    /\ UNCHANGED handlerVars

\* The handlers run while the gateway session is up; the tree dispatches a
\* command to its handler without regard to on_ready.
Serve ==
    /\ mainpc = "gateway"
    /\ \E i \in LifeInteractions : Handle(i)

LifeNext ==
    \/ MainNoToken
    \/ BotRun
    \/ LoginReturns
    \/ SyncReturns
    \/ GatewayConnects
    \/ OnReady
    \/ ChangePresenceReturns
    \/ ChangePresenceRaises
    \/ BotRunEnds
    \/ Serve

LifeSpec == LifeInit /\ [][LifeNext]_vars

(***************************************************************************)
(* Vocabulary of the properties.                                           *)
(***************************************************************************)
Delivered(i) == Len(followups[i])

\* The handler of i returned (no exception left it).
Returned(i) == pc[i] = "done"

\* The commands that hand a job to a worker thread, and those that answer
\* with a constant text.
JobCommand(i) == cmd[i] \in {"stock_analyze", "market_review"}
StaticCommand(i) == cmd[i] \in {"help", "about"}

\* The next command in receipt order.
NextToArrive(j) ==
    pc[j] = "idle" /\ \A k \in Interactions : k < j => pc[k] # "idle"

\* The control loop is able to take the next step of every handler that
\* waits for it, and to accept the next command.
CanServe ==
    /\ loop = Free
    /\ \A j \in Interactions :
        /\ NextToArrive(j) =>
               /\ ENABLED ReceiveStockAnalyze(j) /\ ENABLED ReceiveMarketReview(j)
               /\ ENABLED ReceiveHelp(j) /\ ENABLED ReceiveAbout(j)
        /\ pc[j] = "respond" => ENABLED RespondReturns(j)
        /\ pc[j] = "defer" => ENABLED DeferReturns(j)
        /\ pc[j] = "acked" =>
               ENABLED (DispatchStockAnalyze(j) \/ DispatchMarketReview(j))
        /\ pc[j] = "await_job" /\ job[j] = "done" =>
               ENABLED (ResumeStockAnalyze(j) \/ ResumeMarketReview(j))
        /\ pc[j] \in {"send", "send_except"} => ENABLED SendReturns(j)

FailureTexts ==
    {"stock_code_error", "analysis_error", "review_failed", "review_error"}

(***************************************************************************)
(* C1.  For every stock_analyze or market_review interaction whose handler *)
(* runs to its end, whether the collaborator returned a truthy value,      *)
(* returned a falsy value or raised, exactly one deferred acknowledgment   *)
(* was sent and exactly one follow-up message was delivered after it; at   *)
(* no moment has an interaction two acknowledgments or two follow-ups, or  *)
(* a follow-up without its acknowledgment.  (A handler that a raising      *)
(* platform call ends early is the subject of C20.)                        *)
(***************************************************************************)
C1_ExactlyOneAckThenOneFollowup ==
    \A i \in Interactions :
        /\ acks[i] <= 1
        /\ Delivered(i) <= 1
        /\ Delivered(i) = 1 => acks[i] = 1
        /\ Returned(i) /\ JobCommand(i) => acks[i] = 1 /\ Delivered(i) = 1

\* Both handlers ended, one after a falsy result and one after an exception
\* of the collaborator, each with its one follow-up.
C1_Witness ==
    \E i, j \in Interactions :
        /\ Returned(i) /\ followups[i] = <<ReviewFailed>>
        /\ Returned(j) /\ followups[j] = <<AnalysisError(RuntimeErr)>>
        /\ attempts[i] = 1 /\ attempts[j] = 1

(***************************************************************************)
(* C2.  Per interaction the order is acknowledgment, hand-off of the job   *)
(* to the worker thread, follow-up: an interaction whose acknowledgment    *)
(* has not completed has no job dispatched and no follow-up attempted, and *)
(* a follow-up is attempted only once the dispatched job has ended.        *)
(***************************************************************************)
C2_AckThenDispatchThenFollowup ==
    \A i \in Interactions :
        /\ acks[i] = 0 =>
               /\ dispatched[i] = 0 /\ job[i] = None /\ call[i] = NoCall
               /\ attempts[i] = 0 /\ Delivered(i) = 0
        /\ dispatched[i] > 0 => acks[i] = 1
        /\ attempts[i] > 0 => dispatched[i] = 1 /\ job[i] = "done"

\* One interaction has its follow-up in flight after acknowledgment and
\* hand-off while another, not yet acknowledged, has nothing dispatched.
C2_Witness ==
    \E i, j \in Interactions :
        /\ pc[i] = "send" /\ acks[i] = 1 /\ dispatched[i] = 1 /\ attempts[i] = 1
        /\ pc[j] = "defer" /\ dispatched[j] = 0

(***************************************************************************)
(* C3.  The control loop never blocks on a job: whatever jobs are running  *)
(* or hanging on worker threads, no handler holds the control loop, and    *)
(* every other handler's next step (acknowledge, dispatch, follow-up) and  *)
(* the receipt of the next command are enabled.                            *)
(***************************************************************************)
C3_ControlLoopNeverBlocks ==
    /\ CanServe
    /\ \A i \in Interactions : job[i] \in {"running", "hung"} => pc[i] = "await_job"

\* A later-received interaction has completed while the job of an earlier
\* one is still running.
C3_Witness ==
    \E i, j \in Interactions :
        /\ i < j
        /\ job[i] = "running"
        /\ Returned(j) /\ Delivered(j) = 1

(***************************************************************************)
(* C4.  Snapshot isolation: every stock_analyze job holds a configuration  *)
(* object of its own, which is neither the module-level config nor the     *)
(* object of another job; the contents of a job's object are the initial   *)
(* copy or what that job itself wrote, and the contents of the             *)
(* module-level config never change.                                       *)
(***************************************************************************)
HoldsSnapshot(i) == call[i].fn = "run_full_analysis"

C4_SnapshotIsolation ==
    /\ heap[GlobalConfig] = GlobalContents
    /\ \A i \in Interactions :
        HoldsSnapshot(i) =>
            /\ call[i].config # GlobalConfig
            /\ call[i].config \in DOMAIN heap
            /\ \A j \in Interactions :
                   j # i /\ HoldsSnapshot(j) => call[j].config # call[i].config
            /\ heap[call[i].config].stock_list
                   \in {GlobalContents.stock_list, call[i].stock_codes}

\* Two jobs run at once on different symbols; one has written to its
\* snapshot and the other one's snapshot still holds the initial copy.
C4_Witness ==
    \E i, j \in Interactions :
        /\ i # j
        /\ job[i] = "running" /\ job[j] = "running"
        /\ HoldsSnapshot(i) /\ HoldsSnapshot(j)
        /\ stock_code[i] # stock_code[j]
        /\ heap[call[i].config].stock_list = <<stock_code[i]>>
        /\ heap[call[j].config] = GlobalContents
        /\ heap[call[i].config] # GlobalContents

(***************************************************************************)
(* C5.  As stated: whenever run_full_analysis raises any exception, the    *)
(* follow-up of that stock_analyze interaction is the generic              *)
(* "分析过程中发生错误" message with the exception text, never the           *)
(* "股票代码错误" message.                                                  *)
(***************************************************************************)
RaisedInAnalysis(i) ==
    /\ cmd[i] = "stock_analyze"
    /\ outcome[i].kind = "raise"
    /\ pc[i] = "send_except"

C5_AsStated ==
    \A i \in Interactions :
        RaisedInAnalysis(i) => sending[i] = AnalysisError(outcome[i].exc)

(***************************************************************************)
(* C5, amended.  Whenever run_full_analysis raises an exception that is    *)
(* not a ValueError, the follow-up is the generic "分析过程中发生错误"       *)
(* message with the exception text; when it raises a ValueError the        *)
(* follow-up is the "股票代码错误" message with the exception text.  In     *)
(* both cases the control loop can still accept and serve the next         *)
(* command.                                                                *)
(***************************************************************************)
C5_CollaboratorErrorUnlessValueError ==
    /\ CanServe
    /\ \A i \in Interactions :
        RaisedInAnalysis(i) =>
            /\ sending[i].error = outcome[i].exc.text
            /\ outcome[i].exc.type = "ValueError" =>
                   sending[i].text = "stock_code_error"
            /\ outcome[i].exc.type # "ValueError" =>
                   sending[i].text = "analysis_error"

\* The analysis failed with a RuntimeError, its generic follow-up was
\* delivered, and the next command can be received.
C5_Witness ==
    \E i, j \in Interactions :
        /\ cmd[i] = "stock_analyze" /\ Returned(i)
        /\ followups[i] = <<AnalysisError(RuntimeErr)>>
        /\ NextToArrive(j) /\ ENABLED ReceiveStockAnalyze(j)

(***************************************************************************)
(* C6.  No exception of a job leaves the handler: after the collaborator   *)
(* raised, the handler is in its except clause with a failure follow-up,   *)
(* the only exception that ever leaves a handler is one raised by a        *)
(* platform call, and whatever interactions have failed the control loop   *)
(* can acknowledge and serve the other commands.                           *)
(***************************************************************************)
C6_JobFailuresAreContained ==
    /\ CanServe
    /\ \A i \in Interactions :
        /\ escaped[i] \notin JobExceptions
        /\ pc[i] = "raised" => escaped[i] = HTTPErr
        /\ outcome[i].kind = "raise" /\ pc[i] # "await_job" =>
               /\ pc[i] = "send_except"
               /\ sending[i].text \in FailureTexts
               /\ sending[i].error = outcome[i].exc.text

\* An earlier interaction ended with a failure follow-up; a later one has
\* been acknowledged and its job has been handed off.
C6_Witness ==
    \E i, j \in Interactions :
        /\ i < j
        /\ Returned(i) /\ followups[i] = <<ReviewError(ValueErr)>>
        /\ acks[j] = 1 /\ job[j] = "running"

(***************************************************************************)
(* C7.  Every acknowledged interaction eventually receives its final       *)
(* follow-up (or a platform call raised and ended its handler): none stays *)
(* pending forever, in particular not when the worker thread never         *)
(* returns.                                                                *)
(***************************************************************************)
C7_AckedEventuallyAnswered ==
    \A i \in Interactions :
        (acks[i] = 1) ~> (Delivered(i) = 1 \/ pc[i] = "raised")

(***************************************************************************)
(* C8.  For every invalid stock_code (empty, or not matching the exchange  *)
(* code pattern) the collaborator run_full_analysis is never invoked.      *)
(***************************************************************************)
C8_InvalidSymbolNeverDispatched ==
    \A i \in Interactions :
        cmd[i] = "stock_analyze" /\ ~WellFormedSymbol(stock_code[i]) =>
            dispatched[i] = 0 /\ job[i] = None

(***************************************************************************)
(* C9.  For every stock_analyze invocation with a valid stock_code c and   *)
(* flag full_report f, run_full_analysis is invoked with stock_codes       *)
(* exactly [c] and no_market_review = not f; when it returns without       *)
(* raising, the follow-up handed to followup.send is the success text      *)
(* naming c, and a delivered success text names c.                         *)
(***************************************************************************)
C9_ValidSymbolRouted ==
    \A i \in Interactions :
        cmd[i] = "stock_analyze" /\ WellFormedSymbol(stock_code[i]) =>
            /\ HoldsSnapshot(i) =>
                   /\ call[i].stock_codes = <<stock_code[i]>>
                   /\ call[i].args.no_market_review = ~full_report[i]
                   /\ call[i].args.stocks = None
            /\ dispatched[i] = 1 /\ ~Returned(i) /\ pc[i] # "raised" =>
                   HoldsSnapshot(i)
            /\ outcome[i].kind = "return" /\ attempts[i] = 1 =>
                   /\ pc[i] = "send"
                   /\ sending[i].text = "analysis_done"
                   /\ sending[i].stock_code = stock_code[i]
            /\ \A k \in 1..Delivered(i) :
                   followups[i][k].text = "analysis_done" =>
                       followups[i][k].stock_code = stock_code[i]

\* /stock_analyze 600519 with full_report=True has been answered with the
\* success text naming 600519.
C9_Witness ==
    \E i \in Interactions :
        /\ cmd[i] = "stock_analyze"
        /\ stock_code[i] = Code600519 /\ full_report[i]
        /\ Returned(i)
        /\ followups[i] = <<AnalysisDone(Code600519)>>

(***************************************************************************)
(* C10.  For every market_review interaction the follow-up handed to       *)
(* followup.send is the success text if and only if the collaborator       *)
(* returned a truthy value; after a falsy value it is "大盘复盘失败", the    *)
(* only follow-up of the interaction; no exception leaves the handler on   *)
(* that path and the control loop goes on serving commands.                *)
(***************************************************************************)
C10_ReviewSuccessIffTruthy ==
    /\ CanServe
    /\ \A i \in Interactions :
        cmd[i] = "market_review" =>
            /\ pc[i] \in {"send", "send_except"} =>
                   (sending[i] = ReviewDone <=>
                        /\ pc[i] = "send"
                        /\ outcome[i].kind = "return"
                        /\ Truthy(outcome[i].value))
            /\ pc[i] = "send" /\ ~Truthy(outcome[i].value) =>
                   /\ sending[i] = ReviewFailed
                   /\ attempts[i] = 1 /\ Delivered(i) = 0
                   /\ escaped[i] = NoException
            /\ Delivered(i) <= 1

\* A review whose collaborator returned false has been answered with the
\* failure text, and a later command is being served.
C10_Witness ==
    \E i, j \in Interactions :
        /\ i < j
        /\ cmd[i] = "market_review" /\ Returned(i)
        /\ followups[i] = <<ReviewFailed>> /\ attempts[i] = 1
        /\ pc[j] = "acked"

(***************************************************************************)
(* C12 as stated: every command whose handler returned, help and about     *)
(* included, had one deferred acknowledgment and one follow-up message.    *)
(***************************************************************************)
C12_AsStated ==
    \A i \in Interactions :
        Returned(i) => acks[i] = 1 /\ Delivered(i) = 1

(***************************************************************************)
(* C12.  stock_analyze and market_review follow the three-phase protocol:  *)
(* a handler that returned has sent one deferred acknowledgment and then   *)
(* one follow-up, a success or a failure text, and no immediate response.  *)
(* help and about do not: they never defer and never send a follow-up,     *)
(* and a handler that returned has sent one immediate response.            *)
(***************************************************************************)
C12_JobCommandsDeferStaticCommandsRespond ==
    \A i \in Interactions :
        /\ JobCommand(i) =>
               /\ replies[i] = << >>
               /\ Returned(i) =>
                      /\ acks[i] = 1 /\ Delivered(i) = 1
                      /\ followups[i][1].text \in
                             FailureTexts \cup {"analysis_done", "review_done"}
        /\ StaticCommand(i) =>
               /\ acks[i] = 0 /\ attempts[i] = 0 /\ Delivered(i) = 0
               /\ \A k \in 1..Len(deferred) : deferred[k] # i
               /\ Len(replies[i]) <= 1
               /\ Returned(i) => Len(replies[i]) = 1

\* A help handler returned after its immediate response, with no
\* acknowledgment and no follow-up, and a market_review handler returned
\* after acknowledgment and follow-up.
C12_Witness ==
    \E i, j \in Interactions :
        /\ cmd[i] = "help" /\ Returned(i)
        /\ replies[i] = <<HelpText>> /\ acks[i] = 0 /\ Delivered(i) = 0
        /\ cmd[j] = "market_review" /\ Returned(j)
        /\ acks[j] = 1 /\ followups[j] = <<ReviewDone>>

(***************************************************************************)
(* C13.  help and about never dispatch a job: an interaction of either     *)
(* command has no collaborator call, no job on a worker thread, no result, *)
(* no configuration object and never holds the control loop; it has at     *)
(* most one response, exactly one once its handler returned, and the       *)
(* response is the constant text of the command.                           *)
(***************************************************************************)
C13_StaticCommandsDispatchNothing ==
    \A i \in Interactions :
        StaticCommand(i) =>
            /\ dispatched[i] = 0 /\ job[i] = None
            /\ call[i] = NoCall /\ outcome[i] = NoOutcome
            /\ NewObject(i) \notin DOMAIN heap
            /\ loop # i
            /\ Len(replies[i]) <= 1
            /\ Returned(i) => Len(replies[i]) = 1
            /\ \A k \in 1..Len(replies[i]) :
                   replies[i][k] = IF cmd[i] = "help" THEN HelpText ELSE AboutText

\* An about handler returned with its text while the job of an earlier
\* stock_analyze, the only one dispatched, is running on its snapshot.
C13_Witness ==
    \E i, j \in Interactions :
        /\ cmd[i] = "about" /\ Returned(i) /\ replies[i] = <<AboutText>>
        /\ cmd[j] = "stock_analyze" /\ job[j] = "running"
        /\ DOMAIN heap = {GlobalConfig, NewObject(j)}

(***************************************************************************)
(* C14 as stated: of two stock_analyze or market_review interactions, the  *)
(* one received first is acknowledged first: when the later one has been   *)
(* acknowledged, so has the earlier one, unless its defer call raised.     *)
(***************************************************************************)
C14_AsStated ==
    \A i, j \in Interactions :
        i < j /\ JobCommand(i) /\ JobCommand(j) /\ acks[j] = 1 =>
            acks[i] = 1 \/ pc[i] = "raised"

(***************************************************************************)
(* C14.  The defer calls are issued in receipt order: every stock_analyze  *)
(* or market_review interaction that was received has issued its defer     *)
(* call, and the calls were issued in the order of receipt; only an        *)
(* interaction whose call was issued is acknowledged.  (The calls complete *)
(* in any order.)                                                          *)
(***************************************************************************)
C14_DeferCallsInReceiptOrder ==
    /\ \A k, l \in 1..Len(deferred) : k < l => deferred[k] < deferred[l]
    /\ \A i \in Interactions :
        /\ JobCommand(i) => \E k \in 1..Len(deferred) : deferred[k] = i
        /\ acks[i] = 1 => \E k \in 1..Len(deferred) : deferred[k] = i

\* Two defer calls were issued in receipt order; the later interaction has
\* been acknowledged and the earlier one's call is still in flight.
C14_Witness ==
    \E i, j \in Interactions :
        /\ i < j
        /\ \E k, l \in 1..Len(deferred) :
               k < l /\ deferred[k] = i /\ deferred[l] = j
        /\ pc[i] = "defer" /\ acks[i] = 0
        /\ acks[j] = 1

(***************************************************************************)
(* C17.  Each stock_analyze or market_review interaction hands its         *)
(* collaborator to a worker thread at most once, and exactly once when it  *)
(* was acknowledged and its handler went on: the job is not started a      *)
(* second time, also not after it raised, and a follow-up is attempted     *)
(* only after that one job ended.                                          *)
(***************************************************************************)
C17_DispatchedExactlyOnce ==
    \A i \in Interactions :
        /\ dispatched[i] <= 1
        /\ JobCommand(i) /\ acks[i] = 1 /\ pc[i] # "acked" => dispatched[i] = 1
        /\ dispatched[i] = 1 => job[i] \in {"running", "hung", "done"}
        /\ outcome[i] # NoOutcome => job[i] = "done" /\ dispatched[i] = 1
        /\ pc[i] \in {"send", "send_except", "done", "raised"} /\ JobCommand(i)
               /\ acks[i] = 1 => job[i] = "done"

\* The job of a stock_analyze raised, the failure follow-up is in flight,
\* and the job was started once.
C17_Witness ==
    \E i \in Interactions :
        /\ cmd[i] = "stock_analyze"
        /\ outcome[i].kind = "raise"
        /\ pc[i] = "send_except" /\ sending[i] = AnalysisError(RuntimeErr)
        /\ dispatched[i] = 1 /\ job[i] = "done"

C19_StockOutcomeIgnoresReturnValue ==
    \A i \in Interactions :
        /\ cmd[i] = "stock_analyze" =>
               /\ attempts[i] = 1 /\ pc[i] \in {"send", "send_except"} =>
                      /\ outcome[i].kind = "return" <=>
                             sending[i] = AnalysisDone(stock_code[i])
                      /\ outcome[i].kind = "raise" <=>
                             sending[i].text \in FailureTexts
                      /\ outcome[i].kind = "return" <=> pc[i] = "send"
               /\ sending[i].text \in FailureTexts =>
                      outcome[i].kind = "raise" \/ attempts[i] = 2
        /\ cmd[i] = "market_review" /\ pc[i] = "send" /\ attempts[i] = 1
               /\ ~Truthy(outcome[i].value) => sending[i] = ReviewFailed

\* run_full_analysis returned False and the success text is in flight;
\* run_market_review returned False and the failure text is in flight.
C19_Witness ==
    \E i, j \in Interactions :
        /\ cmd[i] = "stock_analyze" /\ pc[i] = "send"
        /\ outcome[i] = [kind |-> "return", value |-> "False"]
        /\ sending[i] = AnalysisDone(stock_code[i])
        /\ cmd[j] = "market_review" /\ pc[j] = "send"
        /\ outcome[j] = [kind |-> "return", value |-> "False"]
        /\ sending[j] = ReviewFailed

(***************************************************************************)
(* C20.  When a followup.send inside the try block raises, the except      *)
(* clause of the same handler issues one further followup.send; an         *)
(* interaction has at most two attempts, two only when the first raised    *)
(* (nothing of the first was delivered and the second carries the text of  *)
(* the send's exception), and an exception of a send inside the except     *)
(* clause leaves the handler.                                              *)
(***************************************************************************)
C20_AtMostTwoAttempts ==
    \A i \in Interactions :
        /\ attempts[i] <= 2
        /\ attempts[i] = 2 =>
               /\ pc[i] \in {"send_except", "done", "raised"}
               /\ pc[i] = "send_except" =>
                      /\ sending[i] = ExceptClause(cmd[i], HTTPErr)
                      /\ Delivered(i) = 0
               /\ pc[i] = "done" =>
                      followups[i] = <<ExceptClause(cmd[i], HTTPErr)>>
               /\ pc[i] = "raised" => Delivered(i) = 0
        /\ pc[i] = "raised" /\ attempts[i] >= 1 => escaped[i] = HTTPErr

C20_SendSteps ==
    \A i \in Interactions :
        /\ pc[i] = "send" /\ pc'[i] # "send" =>
               \/ /\ pc'[i] = "done"
                  /\ followups'[i] = Append(followups[i], sending[i])
                  /\ attempts'[i] = attempts[i]
               \/ /\ pc'[i] = "send_except"
                  /\ attempts'[i] = attempts[i] + 1
                  /\ sending'[i] = ExceptClause(cmd[i], HTTPErr)
                  /\ followups'[i] = followups[i]
                  /\ escaped'[i] = NoException
        /\ pc[i] = "send_except" /\ pc'[i] # "send_except" =>
               \/ /\ pc'[i] = "done"
                  /\ followups'[i] = Append(followups[i], sending[i])
                  /\ attempts'[i] = attempts[i]
               \/ /\ pc'[i] = "raised"
                  /\ escaped'[i] = HTTPErr
                  /\ attempts'[i] = attempts[i]
                  /\ followups'[i] = followups[i]

C20_SendRaisedInTryThenExcept ==
    []C20_AtMostTwoAttempts /\ [][C20_SendSteps]_vars

\* The first send raised inside the try block, the except clause sent
\* again, and the exception of that second send left the handler.
C20_Witness ==
    \E i \in Interactions :
        /\ attempts[i] = 2 /\ pc[i] = "raised"
        /\ escaped[i] = HTTPErr /\ Delivered(i) = 0

(***************************************************************************)
(* C11 as stated: a job is handed to a worker thread only while the        *)
(* lifecycle state is Ready (a command received before Ready is rejected   *)
(* and no collaborator is invoked).                                        *)
(***************************************************************************)
C11_DispatchOnlyWhenReady ==
    [][\A i \in Interactions :
           dispatched'[i] > dispatched[i] => lifecycle = "Ready"]_vars

(***************************************************************************)
(* C15.  main returns once, 0 or 1: 1 when the token is missing, and then  *)
(* the bot was never started, or when an Exception left bot.run; 0 when    *)
(* bot.run returned or KeyboardInterrupt left it.                          *)
(***************************************************************************)
C15_ExitCodes ==
    /\ Len(exit_code) <= 1
    /\ mainpc = "exited" <=> Len(exit_code) = 1
    /\ mainpc = "exited" =>
           /\ exit_code[1] \in {0, 1}
           /\ exit_code[1] = 1 <=> ended \in {"no_token", "Exception"}
           /\ exit_code[1] = 0 <=> ended \in {"returned", "KeyboardInterrupt"}
           /\ ended = "no_token" <=> token \in {None, ""}
           /\ ended = "no_token" => lifecycle = None /\ presence = NoPresence

\* The bot was serving when KeyboardInterrupt left bot.run, and main
\* returned 0.
C15_Witness ==
    /\ mainpc = "exited"
    /\ ended = "KeyboardInterrupt"
    /\ exit_code = <<0>>
    /\ presence = Online

(***************************************************************************)
(* C16 as stated: the lifecycle state changes only along Connecting ->     *)
(* SyncingCommands -> Ready -> ShuttingDown, one state at a time.          *)
(***************************************************************************)
C16_AsStated ==
    [][lifecycle' # lifecycle =>
           <<lifecycle, lifecycle'>> \in
               {<<None, "Connecting">>, <<"Connecting", "SyncingCommands">>,
                <<"SyncingCommands", "Ready">>, <<"Ready", "ShuttingDown">>}]_vars

(***************************************************************************)
(* C16.  The lifecycle state only moves forward in the order Connecting,   *)
(* SyncingCommands, Ready, ShuttingDown, to the next state or, when        *)
(* bot.run ends, from any state to ShuttingDown; no state is revisited.    *)
(* Ready is entered only after tree.sync returned, and on entering it      *)
(* on_ready issues change_presence; the presence descriptor is written     *)
(* only by that call, to (online, activity label).                         *)
(***************************************************************************)
LifecycleOrder ==
    <<None, "Connecting", "SyncingCommands", "Ready", "ShuttingDown">>

Rank(state) == CHOOSE k \in 1..Len(LifecycleOrder) : LifecycleOrder[k] = state

C16_States ==
    /\ lifecycle = "Ready" => synced
    /\ presence # NoPresence =>
           /\ presence = Online
           /\ synced
           /\ lifecycle \in {"Ready", "ShuttingDown"}

C16_Steps ==
    /\ lifecycle' # lifecycle =>
           \/ Rank(lifecycle') = Rank(lifecycle) + 1
           \/ lifecycle' = "ShuttingDown" /\ Rank(lifecycle') > Rank(lifecycle)
    /\ lifecycle' # lifecycle /\ lifecycle' = "Ready" =>
           synced /\ ready_pc' = "change_presence"
    /\ presence' # presence =>
           /\ lifecycle = "Ready"
           /\ ready_pc = "change_presence"
           /\ presence' = Online

C16_ForwardOnlySyncBeforeReady ==
    []C16_States /\ [][C16_Steps]_vars

\* The bot is Ready after login and sync, its presence is set, and a
\* command is being handled.
C16_Witness ==
    /\ lifecycle = "Ready" /\ synced
    /\ presence = Online /\ ready_pc = "done"
    /\ \E i \in Interactions : pc[i] = "await_job"

====
